---- MODULE Spec2Model ----
(***************************************************************************)
(* A model of src/curses.rs: the colour theme parser, the colour-pair      *)
(* cache, the margin grammar and the viewport geometry of the terminal     *)
(* layer.  Strings are sequences of one-character strings; i16 and i32     *)
(* values are integers kept in range where the source's width matters.     *)
(***************************************************************************)
EXTENDS Integers, Sequences, FiniteSets, TLC

VARIABLES
    \* ColorTheme::from_options
    color,          \* the colour option string handed to from_options
    theme_pc,       \* "call" | "returned" | "panicked"
    theme,          \* the theme from_options returned (NoTheme before)
    \* Curses::parse_margin
    margin,         \* the margin option string handed to parse_margin
    margin_pc,      \* "call" | "returned"
    margins,        \* the (top, right, bottom, left) tuple returned
    \* init / init_pairs / get_color_pair
    color_pc,       \* "start" | "ready"
    overflow_checks,\* build profile: TRUE when i16 arithmetic overflow panics
    FG, BG, USE_COLOR, COLOR_MAP,
    pairs,          \* the terminal's pair table: index -> <<fg, bg>> (init_pair)
    calls,          \* history: <<resolved fg, resolved bg, handle>> of each return, in order
    call_panicked,  \* TRUE once a get_color_pair call aborted on overflow
    \* get_color_pair and init called from several threads
    th_pc,          \* each thread's position in get_color_pair
    th_local,       \* each thread's arguments and locals
    locks,          \* the four RwLocks: who holds each for writing, for reading
    registered,     \* get_color_pair's init_pair calls, in order
    \* Curses: new, get_cursor_pos, resize, mv, erase, clrtoeol, close
    geom_pc,        \* "new" | "query" | "read" | "parse" | "finish" | "ready"
                    \* | "closed" | "panicked"
    options,        \* the --margin and --height option strings (NoOpt: absent)
    term,           \* the terminal's size, what getmaxyx answers
    stdin,          \* the bytes waiting on the input stream
    read_chars,     \* get_cursor_pos's buffer
    dsr_sent,       \* how many cursor-position queries were written
    yx,             \* what get_cursor_pos returned
    curses,         \* the Curses struct (height and margins are new's locals
                    \* until the struct is built)
    stdscr,         \* ncurses' window: cursor y, x and the log of writes
    ca_mode,        \* TRUE while the terminal is in the alternate screen
    ops             \* operations performed on the ready Curses

themeVars  == <<color, theme_pc, theme>>
marginVars == <<margin, margin_pc, margins>>
threadVars == <<th_pc, th_local, locks, registered>>
colorVars  == <<color_pc, overflow_checks, FG, BG, USE_COLOR, COLOR_MAP, pairs,
                calls, call_panicked, threadVars>>
geomVars   == <<geom_pc, options, term, stdin, read_chars, dsr_sent, yx, curses,
                stdscr, ca_mode, ops>>
vars == <<themeVars, marginVars, colorVars, geomVars>>

-----------------------------------------------------------------------------
(* Bounds of the model. *)

\* longest colour option string explored
MaxColorLen == 5
\* longest margin option string explored
MaxMarginLen == 6
\* most get_color_pair calls in one run
MaxCalls == 3
\* most operations on a Curses after its construction
MaxOps == 3
\* threads calling get_color_pair at the same time
NumThreads == 2
\* most get_color_pair calls the threads make in one run
MaxThreadCalls == 2

-----------------------------------------------------------------------------
(* Integer helpers. *)

I16_MIN == -32768
I16_MAX == 32767
I32_MIN == -2147483647 - 1
I32_MAX == 2147483647

\* two's-complement wrap of an integer to i16
Wrap16(x) == ((x + 32768) % 65536) - 32768

\* Rust's `/` on integers truncates toward zero
TruncDiv(a, b) == IF a >= 0 THEN a \div b ELSE -((-a) \div b)

Min(a, b) == IF a <= b THEN a ELSE b

-----------------------------------------------------------------------------
(* Strings: str::split and str::parse. *)

Digits == {"0", "1", "2", "3", "4", "5", "6", "7", "8", "9"}

DigitVal(c) ==
    CASE c = "0" -> 0 [] c = "1" -> 1 [] c = "2" -> 2 [] c = "3" -> 3
      [] c = "4" -> 4 [] c = "5" -> 5 [] c = "6" -> 6 [] c = "7" -> 7
      [] c = "8" -> 8 [] c = "9" -> 9

RECURSIVE DigitsVal(_)
DigitsVal(s) ==
    IF Len(s) = 0 THEN 0
    ELSE DigitsVal(SubSeq(s, 1, Len(s) - 1)) * 10 + DigitVal(s[Len(s)])

\* str::parse::<iN>(): an optional sign, then one or more decimal digits,
\* and a value inside lo..hi; anything else is Err
ParseInt(s, lo, hi) ==
    LET signed == Len(s) > 0 /\ s[1] \in {"+", "-"}
        body   == IF signed THEN Tail(s) ELSE s
        isnum  == Len(body) > 0 /\ \A i \in 1..Len(body) : body[i] \in Digits
        mag    == DigitsVal(body)
        v      == IF signed /\ s[1] = "-" THEN -mag ELSE mag
    IN  IF isnum /\ v >= lo /\ v <= hi
        THEN [ok |-> TRUE, val |-> v]
        ELSE [ok |-> FALSE, val |-> 0]

\* str::split(sep): the pieces between separators, never fewer than one
RECURSIVE Split(_, _)
Split(s, sep) ==
    IF \A i \in 1..Len(s) : s[i] # sep THEN <<s>>
    ELSE LET i == CHOOSE j \in 1..Len(s) :
                      s[j] = sep /\ \A k \in 1..(j - 1) : s[k] # sep
         IN  <<SubSeq(s, 1, i - 1)>> \o Split(SubSeq(s, i + 1, Len(s)), sep)

\* all strings over alphabet A of length at most n
RECURSIVE StringsUpTo(_, _)
StringsUpTo(A, n) ==
    IF n = 0 THEN {<<>>}
    ELSE LET shorter == StringsUpTo(A, n - 1)
         IN  shorter \cup {Append(s, c) : s \in shorter, c \in A}

-----------------------------------------------------------------------------
(* ColorTheme. *)

COLOR_DEFAULT == -1
COLOR_UNDEFINED == -2

Roles == {"fg", "bg", "matched", "matched_bg", "current", "current_bg", "current_match", "current_match_bg", "spinner", "info", "prompt", "cursor", "selected", "header"}

\* the role a key of the colour option names, "" when it names none
RoleOf(s) ==
    CASE s = <<"f", "g">> -> "fg"
      [] s = <<"b", "g">> -> "bg"
      [] s = <<"m", "a", "t", "c", "h", "e", "d">> -> "matched"
      [] s = <<"m", "a", "t", "c", "h", "e", "d", "_", "b", "g">> -> "matched_bg"
      [] s = <<"c", "u", "r", "r", "e", "n", "t">> -> "current"
      [] s = <<"c", "u", "r", "r", "e", "n", "t", "_", "b", "g">> -> "current_bg"
      [] s = <<"c", "u", "r", "r", "e", "n", "t", "_", "m", "a", "t", "c", "h">> -> "current_match"
      [] s = <<"c", "u", "r", "r", "e", "n", "t", "_", "m", "a", "t", "c", "h", "_", "b", "g">> -> "current_match_bg"
      [] s = <<"s", "p", "i", "n", "n", "e", "r">> -> "spinner"
      [] s = <<"i", "n", "f", "o">> -> "info"
      [] s = <<"p", "r", "o", "m", "p", "t">> -> "prompt"
      [] s = <<"c", "u", "r", "s", "o", "r">> -> "cursor"
      [] s = <<"s", "e", "l", "e", "c", "t", "e", "d">> -> "selected"
      [] s = <<"h", "e", "a", "d", "e", "r">> -> "header"
      [] OTHER -> ""

ColorThemeNew ==
    [ use_default |-> TRUE,
      fg |-> COLOR_UNDEFINED,
      bg |-> COLOR_UNDEFINED,
      matched |-> COLOR_UNDEFINED,
      matched_bg |-> COLOR_UNDEFINED,
      current |-> COLOR_UNDEFINED,
      current_bg |-> COLOR_UNDEFINED,
      current_match |-> COLOR_UNDEFINED,
      current_match_bg |-> COLOR_UNDEFINED,
      spinner |-> COLOR_UNDEFINED,
      info |-> COLOR_UNDEFINED,
      prompt |-> COLOR_UNDEFINED,
      cursor |-> COLOR_UNDEFINED,
      selected |-> COLOR_UNDEFINED,
      header |-> COLOR_UNDEFINED ]

DEFAULT16 ==
    [ use_default |-> TRUE,
      fg |-> 15,
      bg |-> 0,
      matched |-> 2,
      matched_bg |-> 0,
      current |-> 3,
      current_bg |-> 0,
      current_match |-> 2,
      current_match_bg |-> 0,
      spinner |-> 2,
      info |-> 7,
      prompt |-> 4,
      cursor |-> 1,
      selected |-> 5,
      header |-> 6 ]

DARK256 ==
    [ use_default |-> TRUE,
      fg |-> 15,
      bg |-> 0,
      matched |-> 108,
      matched_bg |-> 0,
      current |-> 254,
      current_bg |-> 236,
      current_match |-> 151,
      current_match_bg |-> 236,
      spinner |-> 148,
      info |-> 144,
      prompt |-> 110,
      cursor |-> 161,
      selected |-> 168,
      header |-> 109 ]

MONOKAI256 ==
    [ use_default |-> TRUE,
      fg |-> 252,
      bg |-> 234,
      matched |-> 234,
      matched_bg |-> 186,
      current |-> 254,
      current_bg |-> 236,
      current_match |-> 234,
      current_match_bg |-> 186,
      spinner |-> 148,
      info |-> 144,
      prompt |-> 110,
      cursor |-> 161,
      selected |-> 168,
      header |-> 109 ]

LIGHT256 ==
    [ use_default |-> TRUE,
      fg |-> 15,
      bg |-> 0,
      matched |-> 0,
      matched_bg |-> 220,
      current |-> 237,
      current_bg |-> 251,
      current_match |-> 66,
      current_match_bg |-> 251,
      spinner |-> 65,
      info |-> 101,
      prompt |-> 25,
      cursor |-> 161,
      selected |-> 168,
      header |-> 31 ]

\* use default if x is COLOR_UNDEFINED, else use x
shadow(default, x) == IF x = COLOR_UNDEFINED THEN default ELSE x

\* the preset a token without ':' selects
PresetOf(name) ==
    CASE name = <<"m", "o", "l", "o", "k", "a", "i">> -> MONOKAI256
      [] name = <<"l", "i", "g", "h", "t">> -> LIGHT256
      [] name = <<"1", "6">> -> DEFAULT16
      [] OTHER -> DARK256

\* color[1].parse().unwrap_or(COLOR_UNDEFINED), on i16
ParseColor(s) ==
    LET r == ParseInt(s, I16_MIN, I16_MAX)
    IN  IF r.ok THEN r.val ELSE COLOR_UNDEFINED

\* one turn of from_options' loop on the token `pair`: the theme after it,
\* or a panic when color[1] is indexed on a one-element vector
ApplyToken(t, pair) ==
    LET colorv == Split(pair, ":")
        t1     == IF Len(colorv) < 2 THEN PresetOf(colorv[1]) ELSE t
        role   == RoleOf(colorv[1])
    IN  IF role = "" THEN [panic |-> FALSE, theme |-> t1]
        ELSE IF Len(colorv) < 2 THEN [panic |-> TRUE, theme |-> t1]
        ELSE [panic |-> FALSE,
              theme |-> [t1 EXCEPT ![role] = ParseColor(colorv[2])]]

RECURSIVE FoldTokens(_, _)
FoldTokens(t, toks) ==
    IF Len(toks) = 0 THEN [panic |-> FALSE, theme |-> t]
    ELSE LET r == ApplyToken(t, Head(toks))
         IN  IF r.panic THEN r ELSE FoldTokens(r.theme, Tail(toks))

from_options(s) == FoldTokens(ColorThemeNew, Split(s, ","))

NoTheme == [use_default |-> FALSE]

ColorChars == {"f", "g", "1", "6", ":", ",", "-"}
ColorOptions == StringsUpTo(ColorChars, MaxColorLen)

-----------------------------------------------------------------------------
(* Margin and the margin grammar. *)

Fixed(n) == [kind |-> "Fixed", n |-> n]
Percent(p) == [kind |-> "Percent", n |-> p]

parse_margin_string(m) ==
    IF Len(m) > 0 /\ m[Len(m)] = "%"
    THEN LET r == ParseInt(SubSeq(m, 1, Len(m) - 1), I32_MIN, I32_MAX)
         IN  Percent(IF r.ok THEN r.val ELSE 100)
    ELSE LET r == ParseInt(m, I32_MIN, I32_MAX)
         IN  Fixed(IF r.ok THEN r.val ELSE 0)

\* a three-component rule that gives the left side the first component
parse_margin_left_from_top(m) ==
    LET ms == Split(m, ",")
    IN  CASE Len(ms) = 1 ->
               <<parse_margin_string(ms[1]), parse_margin_string(ms[1]),
                 parse_margin_string(ms[1]), parse_margin_string(ms[1])>>
          [] Len(ms) = 2 ->
               <<parse_margin_string(ms[1]), parse_margin_string(ms[2]),
                 parse_margin_string(ms[1]), parse_margin_string(ms[2])>>
          [] Len(ms) = 3 ->
               <<parse_margin_string(ms[1]), parse_margin_string(ms[2]),
                 parse_margin_string(ms[3]), parse_margin_string(ms[1])>>
          [] Len(ms) = 4 ->
               <<parse_margin_string(ms[1]), parse_margin_string(ms[2]),
                 parse_margin_string(ms[3]), parse_margin_string(ms[4])>>
          [] OTHER -> <<Fixed(0), Fixed(0), Fixed(0), Fixed(0)>>

\* (top, right, bottom, left)
parse_margin(m) ==
    LET ms == Split(m, ",")
    IN  CASE Len(ms) = 1 ->
               LET mg == parse_margin_string(ms[1]) IN <<mg, mg, mg, mg>>
          [] Len(ms) = 2 ->
               LET margin_tb == parse_margin_string(ms[1])
                   margin_rl == parse_margin_string(ms[2])
               IN  <<margin_tb, margin_rl, margin_tb, margin_rl>>
          [] Len(ms) = 3 ->
               LET mtop      == parse_margin_string(ms[1])
                   margin_rl == parse_margin_string(ms[2])
                   mbottom   == parse_margin_string(ms[3])
               IN  <<mtop, margin_rl, mbottom, margin_rl>>
          [] Len(ms) = 4 ->
               <<parse_margin_string(ms[1]), parse_margin_string(ms[2]),
                 parse_margin_string(ms[3]), parse_margin_string(ms[4])>>
          [] OTHER -> <<Fixed(0), Fixed(0), Fixed(0), Fixed(0)>>

MarginChars == {"1", "2", "%", ",", "-"}
MarginStrings == StringsUpTo(MarginChars, MaxMarginLen)

-----------------------------------------------------------------------------
(* The colour-pair cache: init, init_pairs, get_color_pair. *)

COLOR_BLACK == 0
COLOR_USER == 10

\* ncurses' COLOR_PAIR: the pair number in the attribute's colour byte
COLOR_PAIR(n) == (n % 256) * 256

\* FG, BG and the pairs 1..9 that init_pairs registers
init_pairs(base, th, is_black) ==
    LET fg0 == shadow(base.fg, th.fg)
        bg0 == shadow(base.bg, th.bg)
        fg  == IF is_black THEN fg0
               ELSE IF th.use_default THEN COLOR_DEFAULT ELSE fg0
        bg  == IF is_black THEN COLOR_BLACK
               ELSE IF th.use_default THEN COLOR_DEFAULT ELSE bg0
        cur_bg == shadow(base.current_bg, th.current_bg)
    IN  [ fg |-> fg, bg |-> bg,
          pairs |->
               1 :> <<shadow(base.prompt, th.prompt), bg>>
            @@ 2 :> <<shadow(base.matched, th.matched),
                      shadow(base.matched_bg, th.matched_bg)>>
            @@ 3 :> <<shadow(base.current, th.current), cur_bg>>
            @@ 4 :> <<shadow(base.current_match, th.current_match),
                      shadow(base.current_match_bg, th.current_match_bg)>>
            @@ 5 :> <<shadow(base.spinner, th.spinner), bg>>
            @@ 6 :> <<shadow(base.info, th.info), bg>>
            @@ 7 :> <<shadow(base.cursor, th.cursor), cur_bg>>
            @@ 8 :> <<shadow(base.selected, th.selected), cur_bg>>
            @@ 9 :> <<shadow(base.header, th.header), bg0>> ]

\* `if fg == -1 { *FG.read().unwrap() } else {fg}`
resolve_color(c, default) == IF c = -1 THEN default ELSE c

\* `(fg << 8) + bg` on i16: the shift drops the bits it pushes out; the sum
\* overflows when it leaves the i16 range
key_sum(fg, bg) == Wrap16(fg * 256) + bg
key_overflows(fg, bg) == key_sum(fg, bg) < I16_MIN \/ key_sum(fg, bg) > I16_MAX
color_key(fg, bg) == Wrap16(key_sum(fg, bg))

\* `COLOR_USER + pair_num`, pair_num the map's length as i16
next_pair(map) == COLOR_USER + Wrap16(Cardinality(DOMAIN map))

\* a cache that overwrites the entry on every call
insert_overwriting(map, key, handle) == (key :> handle) @@ map

\* `color_map.entry(key).or_insert_with(..)`: the map afterwards
entry_or_insert_with(map, key, handle) ==
    IF key \in DOMAIN map THEN map ELSE (key :> handle) @@ map

\* the themes init is handed: what from_options returns on "16" and on "fg:1"
ThemeInputs ==
    { from_options(s).theme : s \in {<<"1", "6">>, <<"f", "g", ":", "1">>} }

\* the (fg, bg) arguments get_color_pair is called with
ColorArgs ==
    { <<0, 255>>, <<1, -1>>, <<-1, 0>>, <<255, 0>>, <<128, -1>>, <<1, 0>>,
      <<3, 0>>, <<-1, -1>> }

\* the threads that call get_color_pair; MainThread is the one that calls init
Threads == 1..NumThreads
MainThread == 0

\* the (fg, bg) arguments the threads call get_color_pair with
ThreadColorArgs == { <<0, 255>>, <<1, -1>>, <<-1, 0>>, <<128, -1>> }

\* std::sync::RwLock: at most one writer, or any number of readers
LockNames == {"COLOR_MAP", "FG", "BG", "USE_COLOR"}
NoThread == -1
Unlocked == [writer |-> NoThread, readers |-> {}]

\* `.read()` returns once no thread holds the lock for writing
can_read(l) == l.writer = NoThread
\* a write() that waits for the readers only, not for another writer
can_write_among_writers(l) == l.readers = {}
\* `.write()` returns once no thread holds the lock at all
can_write(l) == l.writer = NoThread /\ l.readers = {}

read_lock(l, t) == [l EXCEPT !.readers = @ \cup {t}]
write_lock(l, t) == [l EXCEPT !.writer = t]
\* dropping a guard
drop_read(l, t) == [l EXCEPT !.readers = @ \ {t}]
drop_write(l, t) == [l EXCEPT !.writer = NoThread]

\* a thread's locals before it calls
NoLocals == [fg |-> 0, bg |-> 0, key |-> 0, pair_num |-> 0, pair |-> 0]

-----------------------------------------------------------------------------
(* The terminal window as the code uses it: cursor moves and printw. *)

\* a window: the cursor and the log of writes, each write a run of n copies
\* of ch from (y, x) on lines w columns wide, wrapping at the line's end
NewWindow == [y |-> 0, x |-> 0, log |-> <<>>]

\* ncurses' mv: moves the cursor, or fails and changes nothing when the
\* position is outside the window
nc_mv(scr, y, x, tm) ==
    IF y >= 0 /\ y < tm.max_y /\ x >= 0 /\ x < tm.max_x
    THEN [scr EXCEPT !.y = y, !.x = x]
    ELSE scr

\* ncurses' printw of n copies of ch: written from the cursor on, wrapping
\* to the next line, stopping at the window's last cell
nc_printw(scr, n, ch, tm) ==
    LET p0   == scr.y * tm.max_x + scr.x
        last == tm.max_y * tm.max_x - 1
        m    == Min(n, last - p0 + 1)
        p1   == Min(p0 + n, last)
    IN  IF n <= 0 THEN scr
        ELSE [ y   |-> p1 \div tm.max_x,
               x   |-> p1 % tm.max_x,
               log |-> Append(scr.log, [y |-> scr.y, x |-> scr.x, n |-> m,
                                        ch |-> ch, w |-> tm.max_x]) ]

\* the window after the terminal changed its size to tm: ncurses keeps the
\* cursor inside the window
nc_resize(scr, tm) ==
    [scr EXCEPT !.y = Min(scr.y, tm.max_y - 1), !.x = Min(scr.x, tm.max_x - 1)]

\* whether a logged run wrote cell (r, c)
Covers(run, r, c) ==
    /\ c >= 0 /\ c < run.w
    /\ r * run.w + c >= run.y * run.w + run.x
    /\ r * run.w + c < run.y * run.w + run.x + run.n

\* what cell (r, c) shows: the last run's character, "kept" when no run of
\* the log wrote it
CharAt(log, r, c) ==
    LET hits == { i \in 1..Len(log) : Covers(log[i], r, c) }
    IN  IF hits = {} THEN "kept"
        ELSE log[CHOOSE i \in hits : \A j \in hits : j <= i].ch

-----------------------------------------------------------------------------
(* Curses: construction, cursor-position query, geometry, erasing. *)

NoOpt == <<"none">>
ESC == "ESC"

DigitChar(d) ==
    CASE d = 0 -> "0" [] d = 1 -> "1" [] d = 2 -> "2" [] d = 3 -> "3"
      [] d = 4 -> "4" [] d = 5 -> "5" [] d = 6 -> "6" [] d = 7 -> "7"
      [] d = 8 -> "8" [] d = 9 -> "9"

\* the decimal digits of a natural number
RECURSIVE Decimal(_)
Decimal(n) ==
    IF n < 10 THEN <<DigitChar(n)>>
    ELSE Append(Decimal(n \div 10), DigitChar(n % 10))

\* the terminal's answer to the device-status-report query with the cursor
\* on (0-based) row r, column c
CursorReport(r, c) ==
    <<ESC, "[">> \o Decimal(r + 1) \o <<";">> \o Decimal(c + 1) \o <<"R">>

\* lines 188-199: the margins and the height from the options
option_margins(opt) ==
    IF opt = NoOpt THEN <<Fixed(0), Fixed(0), Fixed(0), Fixed(0)>>
    ELSE parse_margin(opt)

option_height(opt) ==
    IF opt = NoOpt THEN Percent(100) ELSE parse_margin_string(opt)

\* lines 311-313: the (y, x) get_cursor_pos returns for the bytes read, or a
\* panic (the slice, an index or an unwrap fails)
cursor_pos_of(s) ==
    IF Len(s) < 3 THEN [panic |-> TRUE, y |-> 0, x |-> 0]
    ELSE LET tt == Split(SubSeq(s, 3, Len(s) - 1), ";")
             r0 == ParseInt(tt[1], I32_MIN, I32_MAX)
             r1 == IF Len(tt) >= 2 THEN ParseInt(tt[2], I32_MIN, I32_MAX)
                   ELSE [ok |-> FALSE, val |-> 0]
         IN  IF r0.ok /\ r1.ok
             THEN [panic |-> FALSE, y |-> r0.val - 1, x |-> r1.val - 1]
             ELSE [panic |-> TRUE, y |-> 0, x |-> 0]

\* ncurses keeps the cursor inside the window
CursorInside(scr, tm) ==
    scr.y >= 0 /\ scr.y < tm.max_y /\ scr.x >= 0 /\ scr.x < tm.max_x

\* the loop of reserve_lines from turn i on: `mv(i, 0); printw(" ")` for i
\* in 0..rows-1.  The CASE guard states the window's invariant; evaluating it
\* on each turn also keeps TLC's evaluation of the loop iterative.
RECURSIVE reserve_loop(_, _, _, _)
reserve_loop(scr, i, rows, tm) ==
    IF i >= rows - 1 THEN scr
    ELSE LET next == nc_printw(nc_mv(scr, i, 0, tm), 1, " ", tm)
         IN  CASE CursorInside(next, tm) -> reserve_loop(next, i + 1, rows, tm)

reserve_lines(scr, max_y, height, tm) ==
    IF height = Percent(100) THEN scr
    ELSE LET rows == IF height.kind = "Percent"
                     THEN TruncDiv(max_y * height.n, 100)
                     ELSE height.n
         IN  nc_printw(reserve_loop(scr, 0, rows, tm), 1, ">", tm)

\* a start row taken from the cursor without the clamp
start_y_unclamped(height, y, max_y) ==
    IF height = Percent(100) THEN 0 ELSE y

\* lines 225-229
start_y_of(height, y, max_y) ==
    CASE height = Percent(100) -> 0
      [] height # Percent(100) /\ height.kind = "Percent" ->
             Min(y, max_y - TruncDiv(height.n * max_y, 100))
      [] height.kind = "Fixed" -> Min(y, max_y - height.n)

height_in_rows(c, tm) ==
    CASE c.height = Percent(100) -> tm.max_y
      [] c.height # Percent(100) /\ c.height.kind = "Percent" ->
             Min(tm.max_y, TruncDiv(c.height.n * tm.max_y, 100))
      [] c.height.kind = "Fixed" -> Min(tm.max_y, c.height.n)

\* a resize that takes percentages of the terminal's rows, not the panel's
resize_against_terminal(c, tm) ==
    LET max_x == tm.max_x
        h     == height_in_rows(c, tm)
    IN  [c EXCEPT
          !.top    = c.start_y + (IF c.margin_top.kind = "Fixed"
                                  THEN c.margin_top.n
                                  ELSE TruncDiv(c.margin_top.n * tm.max_y, 100)),
          !.bottom = c.start_y + h - (IF c.margin_bottom.kind = "Fixed"
                                      THEN c.margin_bottom.n
                                      ELSE TruncDiv(c.margin_bottom.n * tm.max_y, 100)),
          !.left   = IF c.margin_left.kind = "Fixed" THEN c.margin_left.n
                     ELSE TruncDiv(c.margin_left.n * max_x, 100),
          !.right  = max_x - (IF c.margin_right.kind = "Fixed"
                              THEN c.margin_right.n
                              ELSE TruncDiv(c.margin_right.n * max_x, 100))]

resize(c, tm) ==
    LET max_x == tm.max_x
        h     == height_in_rows(c, tm)
    IN  [c EXCEPT
          !.top    = c.start_y + (IF c.margin_top.kind = "Fixed"
                                  THEN c.margin_top.n
                                  ELSE TruncDiv(c.margin_top.n * h, 100)),
          !.bottom = c.start_y + h - (IF c.margin_bottom.kind = "Fixed"
                                      THEN c.margin_bottom.n
                                      ELSE TruncDiv(c.margin_bottom.n * h, 100)),
          !.left   = IF c.margin_left.kind = "Fixed" THEN c.margin_left.n
                     ELSE TruncDiv(c.margin_left.n * max_x, 100),
          !.right  = max_x - (IF c.margin_right.kind = "Fixed"
                              THEN c.margin_right.n
                              ELSE TruncDiv(c.margin_right.n * max_x, 100))]

\* Curses::mv
curses_mv(c, scr, y, x, tm) == nc_mv(scr, y + c.top, x + c.left, tm)

\* the loop of erase from row i on: `mv(i, 0); printw(&spaces)` for i in
\* top..bottom
RECURSIVE erase_loop(_, _, _, _, _)
erase_loop(scr, i, bottom, n, tm) ==
    IF i >= bottom THEN scr
    ELSE LET next == nc_printw(nc_mv(scr, i, 0, tm), n, " ", tm)
         IN  CASE CursorInside(next, tm) -> erase_loop(next, i + 1, bottom, n, tm)

\* Curses::erase: `" ".repeat((right - bottom) as usize)` panics on the
\* huge count a negative difference casts to
erase(c, scr, tm) ==
    IF c.right - c.bottom < 0 THEN [panic |-> TRUE, scr |-> scr]
    ELSE [panic |-> FALSE,
          scr |-> erase_loop(scr, c.top, c.bottom, c.right - c.bottom, tm)]

\* Curses::clrtoeol
clrtoeol(c, scr, tm) ==
    IF c.right - c.bottom < 0 THEN [panic |-> TRUE, scr |-> scr]
    ELSE [panic |-> FALSE,
          scr |-> nc_mv(nc_printw(nc_mv(scr, scr.y, 0, tm),
                                  c.right - c.bottom, " ", tm),
                        scr.y, scr.x, tm)]

NoCurses ==
    [ top |-> 0, bottom |-> 0, left |-> 0, right |-> 0,
      height |-> Percent(100), start_y |-> 0,
      margin_top |-> Fixed(0), margin_bottom |-> Fixed(0),
      margin_left |-> Fixed(0), margin_right |-> Fixed(0) ]

\* the option strings, terminal sizes, cursor rows and positions explored
MarginOptions ==
    { NoOpt, <<"2", ",", "4">>, <<"1", "0", "%", ",", "3", ",", "1">>,
      <<"-", "1", "0", "%">> }
HeightOptions == { NoOpt, <<"4", "0", "%">>, <<"8">>, <<"-", "1">> }
TermSizes ==
    { [max_y |-> 50, max_x |-> 100], [max_y |-> 10, max_x |-> 20],
      [max_y |-> 6, max_x |-> 8] }
CursorRows(tm) == { 0, tm.max_y - 1 }
MvArgs == { <<0, 0>>, <<1, 2>> }

\* what the terminal puts on the input stream after the query: nothing, its
\* report, or its report behind a key the user typed ahead
Responses(tm) ==
    {<<>>} \cup { CursorReport(r, 0) : r \in CursorRows(tm) }
           \cup { <<"q">> \o CursorReport(0, 0) }

-----------------------------------------------------------------------------
(* Idle values: each specification parks the variables it does not use. *)

IdleTheme  == color = <<>> /\ theme_pc = "idle" /\ theme = NoTheme
IdleMargin == margin = <<>> /\ margin_pc = "idle" /\ margins = <<>>
IdleThreads ==
    /\ th_pc = [t \in Threads |-> "idle"]
    /\ th_local = [t \in Threads |-> NoLocals]
    /\ locks = [n \in LockNames |-> Unlocked]
    /\ registered = <<>>
IdleColor  ==
    /\ color_pc = "idle" /\ overflow_checks = FALSE
    /\ FG = 7 /\ BG = 0 /\ USE_COLOR = TRUE
    /\ COLOR_MAP = <<>> /\ pairs = <<>> /\ calls = <<>> /\ call_panicked = FALSE
    /\ IdleThreads
IdleGeom   ==
    /\ geom_pc = "idle" /\ options = <<NoOpt, NoOpt>>
    /\ term = [max_y |-> 0, max_x |-> 0]
    /\ stdin = <<>> /\ read_chars = <<>> /\ dsr_sent = 0 /\ yx = <<0, 0>>
    /\ curses = NoCurses /\ stdscr = NewWindow /\ ca_mode = FALSE /\ ops = 0

-----------------------------------------------------------------------------
(* Specification of ColorTheme::from_options on every bounded option string. *)

InitTheme ==
    /\ color \in ColorOptions
    /\ theme_pc = "call"
    /\ theme = NoTheme
    /\ IdleMargin /\ IdleColor /\ IdleGeom

FromOptions ==
    /\ theme_pc = "call"
    /\ LET r == from_options(color)
       IN  IF r.panic
           THEN theme_pc' = "panicked" /\ theme' = NoTheme
           ELSE theme_pc' = "returned" /\ theme' = r.theme
    /\ UNCHANGED <<color, marginVars, colorVars, geomVars>>

NextTheme == FromOptions

SpecTheme == InitTheme /\ [][NextTheme]_vars

-----------------------------------------------------------------------------
(* Specification of Curses::parse_margin on every bounded margin string. *)

InitMargin ==
    /\ margin \in MarginStrings
    /\ margin_pc = "call"
    /\ margins = <<>>
    /\ IdleTheme /\ IdleColor /\ IdleGeom

ParseMargin ==
    /\ margin_pc = "call"
    /\ margin_pc' = "returned"
    /\ margins' = parse_margin(margin)
    /\ UNCHANGED <<margin, themeVars, colorVars, geomVars>>

NextMargin == ParseMargin

SpecMargin == InitMargin /\ [][NextMargin]_vars


-----------------------------------------------------------------------------
(* Specification of the colour-pair cache: init once, then get_color_pair. *)

InitColor ==
    /\ color_pc = "start"
    /\ overflow_checks \in BOOLEAN
    /\ FG = 7 /\ BG = 0 /\ USE_COLOR = TRUE
    /\ COLOR_MAP = <<>> /\ pairs = <<>> /\ calls = <<>>
    /\ call_panicked = FALSE
    /\ IdleThreads
    /\ IdleTheme /\ IdleMargin /\ IdleGeom

\* init(theme, is_black, _): th = NoTheme stands for None
init ==
    /\ color_pc = "start"
    /\ color_pc' = "ready"
    /\ \E th \in ThemeInputs \cup {NoTheme}, is_black \in BOOLEAN,
          base \in {DARK256, DEFAULT16} :
          IF th = NoTheme
          THEN /\ USE_COLOR' = FALSE
               /\ UNCHANGED <<FG, BG, pairs>>
          ELSE LET r == init_pairs(base, th, is_black)
               IN  /\ FG' = r.fg /\ BG' = r.bg /\ pairs' = r.pairs
                   /\ USE_COLOR' = TRUE
    /\ UNCHANGED <<overflow_checks, COLOR_MAP, calls, call_panicked,
                   threadVars, themeVars, marginVars, geomVars>>

get_color_pair ==
    /\ color_pc = "ready"
    /\ ~call_panicked
    /\ Len(calls) < MaxCalls
    /\ \E a \in ColorArgs :
          LET fg  == resolve_color(a[1], FG)
              bg  == resolve_color(a[2], BG)
              key == color_key(fg, bg)
              np  == next_pair(COLOR_MAP)
              map == entry_or_insert_with(COLOR_MAP, key, COLOR_PAIR(np))
          IN  IF overflow_checks /\ key_overflows(fg, bg)
              THEN /\ call_panicked' = TRUE
                   /\ UNCHANGED <<COLOR_MAP, pairs, calls>>
              ELSE /\ COLOR_MAP' = map
                   /\ pairs' = IF key \in DOMAIN COLOR_MAP THEN pairs
                               ELSE (np :> <<fg, bg>>) @@ pairs
                   /\ calls' = Append(calls, <<fg, bg, map[key]>>)
                   /\ UNCHANGED call_panicked
    /\ UNCHANGED <<color_pc, overflow_checks, FG, BG, USE_COLOR,
                   threadVars, themeVars, marginVars, geomVars>>

NextColor == init \/ get_color_pair

SpecColor == InitColor /\ [][NextColor]_vars


-----------------------------------------------------------------------------
(* Specification of the colour-pair cache under threads: init on the main   *)
(* thread, then get_color_pair on every other thread at once, one step per  *)
(* lock operation and per statement.                                        *)

InitThreads ==
    /\ color_pc = "start"
    /\ overflow_checks \in BOOLEAN
    /\ FG = 7 /\ BG = 0 /\ USE_COLOR = TRUE
    /\ COLOR_MAP = <<>> /\ pairs = <<>> /\ calls = <<>>
    /\ call_panicked = FALSE
    /\ IdleThreads
    /\ IdleTheme /\ IdleMargin /\ IdleGeom

\* the get_color_pair calls begun so far
CallsBegun == Len(calls) + Cardinality({ t \in Threads : th_pc[t] # "idle" })

\* `let mut use_color = USE_COLOR.write().unwrap();`
InitLockUseColor ==
    /\ color_pc = "start"
    /\ can_write(locks["USE_COLOR"])
    /\ locks' = [locks EXCEPT !["USE_COLOR"] = write_lock(@, MainThread)]
    /\ color_pc' = "use_color"
    /\ UNCHANGED <<overflow_checks, FG, BG, USE_COLOR, COLOR_MAP, pairs, calls,
                   call_panicked, th_pc, th_local, registered,
                   themeVars, marginVars, geomVars>>

\* init with theme = None: `*use_color = false`, the guard dropped on return
InitNoTheme ==
    /\ color_pc = "use_color"
    /\ USE_COLOR' = FALSE
    /\ locks' = [locks EXCEPT !["USE_COLOR"] = drop_write(@, MainThread)]
    /\ color_pc' = "ready"
    /\ UNCHANGED <<overflow_checks, FG, BG, COLOR_MAP, pairs, calls,
                   call_panicked, th_pc, th_local, registered,
                   themeVars, marginVars, geomVars>>

\* init_pairs: `let mut fg = FG.write().unwrap();`
InitPairsLockFg ==
    /\ color_pc = "use_color"
    /\ can_write(locks["FG"])
    /\ locks' = [locks EXCEPT !["FG"] = write_lock(@, MainThread)]
    /\ color_pc' = "fg_locked"
    /\ UNCHANGED <<overflow_checks, FG, BG, USE_COLOR, COLOR_MAP, pairs, calls,
                   call_panicked, th_pc, th_local, registered,
                   themeVars, marginVars, geomVars>>

\* init_pairs: `let mut bg = BG.write().unwrap();`
InitPairsLockBg ==
    /\ color_pc = "fg_locked"
    /\ can_write(locks["BG"])
    /\ locks' = [locks EXCEPT !["BG"] = write_lock(@, MainThread)]
    /\ color_pc' = "bg_locked"
    /\ UNCHANGED <<overflow_checks, FG, BG, USE_COLOR, COLOR_MAP, pairs, calls,
                   call_panicked, th_pc, th_local, registered,
                   themeVars, marginVars, geomVars>>

\* init_pairs' body under both guards, then both guards dropped on return
InitPairsBody ==
    /\ color_pc = "bg_locked"
    /\ \E th \in ThemeInputs, is_black \in BOOLEAN, base \in {DARK256, DEFAULT16} :
          LET r == init_pairs(base, th, is_black)
          IN  /\ FG' = r.fg /\ BG' = r.bg
              /\ pairs' = r.pairs @@ pairs
    /\ locks' = [locks EXCEPT !["FG"] = drop_write(@, MainThread),
                              !["BG"] = drop_write(@, MainThread)]
    /\ color_pc' = "pairs_done"
    /\ UNCHANGED <<overflow_checks, USE_COLOR, COLOR_MAP, calls,
                   call_panicked, th_pc, th_local, registered,
                   themeVars, marginVars, geomVars>>

\* init: `*use_color = true`, the guard dropped on return
InitFinish ==
    /\ color_pc = "pairs_done"
    /\ USE_COLOR' = TRUE
    /\ locks' = [locks EXCEPT !["USE_COLOR"] = drop_write(@, MainThread)]
    /\ color_pc' = "ready"
    /\ UNCHANGED <<overflow_checks, FG, BG, COLOR_MAP, pairs, calls,
                   call_panicked, th_pc, th_local, registered,
                   themeVars, marginVars, geomVars>>

\* thread t calls get_color_pair(fg, bg); the threads run once init has
\* returned on the main thread
Call(t) ==
    /\ th_pc[t] = "idle"
    /\ color_pc = "ready"
    /\ CallsBegun < MaxThreadCalls
    /\ \E a \in ThreadColorArgs :
          th_local' = [th_local EXCEPT ![t] = [NoLocals EXCEPT !.fg = a[1],
                                                               !.bg = a[2]]]
    /\ th_pc' = [th_pc EXCEPT ![t] = "fg"]
    /\ UNCHANGED <<color_pc, overflow_checks, FG, BG, USE_COLOR, COLOR_MAP,
                   pairs, calls, call_panicked, locks, registered,
                   themeVars, marginVars, geomVars>>

\* `let fg = if fg == -1 { *FG.read().unwrap() } else {fg};`: the read guard
\* lives to the end of the statement
ResolveFg(t) ==
    /\ th_pc[t] = "fg"
    /\ IF th_local[t].fg = -1
       THEN /\ can_read(locks["FG"])
            /\ locks' = [locks EXCEPT !["FG"] = read_lock(@, t)]
            /\ th_local' = [th_local EXCEPT ![t].fg = resolve_color(-1, FG)]
            /\ th_pc' = [th_pc EXCEPT ![t] = "fg_guard"]
       ELSE /\ th_pc' = [th_pc EXCEPT ![t] = "bg"]
            /\ UNCHANGED <<locks, th_local>>
    /\ UNCHANGED <<color_pc, overflow_checks, FG, BG, USE_COLOR, COLOR_MAP,
                   pairs, calls, call_panicked, registered,
                   themeVars, marginVars, geomVars>>

DropFgGuard(t) ==
    /\ th_pc[t] = "fg_guard"
    /\ locks' = [locks EXCEPT !["FG"] = drop_read(@, t)]
    /\ th_pc' = [th_pc EXCEPT ![t] = "bg"]
    /\ UNCHANGED <<color_pc, overflow_checks, FG, BG, USE_COLOR, COLOR_MAP,
                   pairs, calls, call_panicked, th_local, registered,
                   themeVars, marginVars, geomVars>>

\* `let bg = if bg == -1 { *BG.read().unwrap() } else {bg};`
ResolveBg(t) ==
    /\ th_pc[t] = "bg"
    /\ IF th_local[t].bg = -1
       THEN /\ can_read(locks["BG"])
            /\ locks' = [locks EXCEPT !["BG"] = read_lock(@, t)]
            /\ th_local' = [th_local EXCEPT ![t].bg = resolve_color(-1, BG)]
            /\ th_pc' = [th_pc EXCEPT ![t] = "bg_guard"]
       ELSE /\ th_pc' = [th_pc EXCEPT ![t] = "key"]
            /\ UNCHANGED <<locks, th_local>>
    /\ UNCHANGED <<color_pc, overflow_checks, FG, BG, USE_COLOR, COLOR_MAP,
                   pairs, calls, call_panicked, registered,
                   themeVars, marginVars, geomVars>>

DropBgGuard(t) ==
    /\ th_pc[t] = "bg_guard"
    /\ locks' = [locks EXCEPT !["BG"] = drop_read(@, t)]
    /\ th_pc' = [th_pc EXCEPT ![t] = "key"]
    /\ UNCHANGED <<color_pc, overflow_checks, FG, BG, USE_COLOR, COLOR_MAP,
                   pairs, calls, call_panicked, th_local, registered,
                   themeVars, marginVars, geomVars>>

\* `let key = (fg << 8) + bg;`: the thread panics on overflow when the build
\* checks it, holding no lock
ComputeKey(t) ==
    /\ th_pc[t] = "key"
    /\ LET l == th_local[t]
       IN  IF overflow_checks /\ key_overflows(l.fg, l.bg)
           THEN /\ th_pc' = [th_pc EXCEPT ![t] = "panicked"]
                /\ call_panicked' = TRUE
                /\ UNCHANGED th_local
           ELSE /\ th_pc' = [th_pc EXCEPT ![t] = "write"]
                /\ th_local' = [th_local EXCEPT ![t].key = color_key(l.fg, l.bg)]
                /\ UNCHANGED call_panicked
    /\ UNCHANGED <<color_pc, overflow_checks, FG, BG, USE_COLOR, COLOR_MAP,
                   pairs, calls, locks, registered,
                   themeVars, marginVars, geomVars>>

\* `let mut color_map = COLOR_MAP.write().unwrap();`
LockColorMap(t) ==
    /\ th_pc[t] = "write"
    /\ can_write(locks["COLOR_MAP"])
    /\ locks' = [locks EXCEPT !["COLOR_MAP"] = write_lock(@, t)]
    /\ th_pc' = [th_pc EXCEPT ![t] = "len"]
    /\ UNCHANGED <<color_pc, overflow_checks, FG, BG, USE_COLOR, COLOR_MAP,
                   pairs, calls, call_panicked, th_local, registered,
                   themeVars, marginVars, geomVars>>

\* `let pair_num = color_map.len() as i16;`
ReadLen(t) ==
    /\ th_pc[t] = "len"
    /\ th_local' = [th_local EXCEPT
                       ![t].pair_num = Wrap16(Cardinality(DOMAIN COLOR_MAP))]
    /\ th_pc' = [th_pc EXCEPT ![t] = "entry"]
    /\ UNCHANGED <<color_pc, overflow_checks, FG, BG, USE_COLOR, COLOR_MAP,
                   pairs, calls, call_panicked, locks, registered,
                   themeVars, marginVars, geomVars>>

\* `let pair = color_map.entry(key).or_insert_with(|| {..});`: on a miss the
\* closure registers the pair with init_pair and its handle is stored
EntryOrInsert(t) ==
    /\ th_pc[t] = "entry"
    /\ LET l   == th_local[t]
           np  == COLOR_USER + l.pair_num
           map == entry_or_insert_with(COLOR_MAP, l.key, COLOR_PAIR(np))
       IN  /\ COLOR_MAP' = map
           /\ IF l.key \in DOMAIN COLOR_MAP
              THEN UNCHANGED <<pairs, registered>>
              ELSE /\ pairs' = (np :> <<l.fg, l.bg>>) @@ pairs
                   /\ registered' = Append(registered,
                                           [index |-> np, key |-> l.key])
           /\ th_local' = [th_local EXCEPT ![t].pair = map[l.key]]
    /\ th_pc' = [th_pc EXCEPT ![t] = "return"]
    /\ UNCHANGED <<color_pc, overflow_checks, FG, BG, USE_COLOR,
                   calls, call_panicked, locks,
                   themeVars, marginVars, geomVars>>

\* `*pair`: the handle is returned, the write guard and the locals dropped
Return(t) ==
    /\ th_pc[t] = "return"
    /\ LET l == th_local[t]
       IN  calls' = Append(calls, <<l.fg, l.bg, l.pair>>)
    /\ locks' = [locks EXCEPT !["COLOR_MAP"] = drop_write(@, t)]
    /\ th_local' = [th_local EXCEPT ![t] = NoLocals]
    /\ th_pc' = [th_pc EXCEPT ![t] = "idle"]
    /\ UNCHANGED <<color_pc, overflow_checks, FG, BG, USE_COLOR, COLOR_MAP,
                   pairs, call_panicked, registered,
                   themeVars, marginVars, geomVars>>

NextThreads ==
    \/ InitLockUseColor \/ InitNoTheme \/ InitPairsLockFg \/ InitPairsLockBg
    \/ InitPairsBody \/ InitFinish
    \/ \E t \in Threads :
          \/ Call(t) \/ ResolveFg(t) \/ DropFgGuard(t) \/ ResolveBg(t)
          \/ DropBgGuard(t) \/ ComputeKey(t) \/ LockColorMap(t) \/ ReadLen(t)
          \/ EntryOrInsert(t) \/ Return(t)

SpecThreads == InitThreads /\ [][NextThreads]_vars


-----------------------------------------------------------------------------
(* Specification of a Curses: Curses::new step by step, then resize, mv,    *)
(* erase, clrtoeol and close on the constructed value.                      *)

InitGeom ==
    /\ geom_pc = "new"
    /\ options \in MarginOptions \X HeightOptions
    /\ term \in TermSizes
    /\ stdin = <<>> /\ read_chars = <<>> /\ dsr_sent = 0 /\ yx = <<0, 0>>
    /\ curses = NoCurses /\ stdscr = NewWindow /\ ca_mode = FALSE /\ ops = 0
    /\ IdleTheme /\ IdleMargin /\ IdleColor

\* Curses::new, lines 183-219: the options, initscr, and leaving the
\* alternate screen unless the height is Percent(100)
NewStart ==
    /\ geom_pc = "new"
    /\ LET ms == option_margins(options[1])
           h  == option_height(options[2])
       IN  /\ curses' = [NoCurses EXCEPT !.height = h,
                            !.margin_top = ms[1], !.margin_right = ms[2],
                            !.margin_bottom = ms[3], !.margin_left = ms[4]]
           /\ ca_mode' = (h = Percent(100))
    /\ geom_pc' = "query"
    /\ UNCHANGED <<options, term, stdin, read_chars, dsr_sent, yx, stdscr, ops,
                   themeVars, marginVars, colorVars>>

\* get_cursor_pos, lines 297-300: the query is written; the terminal's
\* answer, if any, lands on the input stream
GetCursorPosQuery ==
    /\ geom_pc = "query"
    /\ dsr_sent' = dsr_sent + 1
    /\ \E resp \in Responses(term) : stdin' = stdin \o resp
    /\ geom_pc' = "read"
    /\ UNCHANGED <<options, term, read_chars, yx, curses, stdscr, ca_mode, ops,
                   themeVars, marginVars, colorVars>>

\* get_cursor_pos, lines 303-310: one blocking read of one byte
GetCursorPosRead ==
    /\ geom_pc = "read"
    /\ stdin # <<>>
    /\ read_chars' = Append(read_chars, Head(stdin))
    /\ stdin' = Tail(stdin)
    /\ geom_pc' = IF Head(stdin) = "R" THEN "parse" ELSE "read"
    /\ UNCHANGED <<options, term, dsr_sent, yx, curses, stdscr, ca_mode, ops,
                   themeVars, marginVars, colorVars>>

\* get_cursor_pos, lines 311-313
GetCursorPosReturn ==
    /\ geom_pc = "parse"
    /\ LET r == cursor_pos_of(read_chars)
       IN  IF r.panic
           THEN geom_pc' = "panicked" /\ UNCHANGED yx
           ELSE geom_pc' = "finish" /\ yx' = <<r.y, r.x>>
    /\ UNCHANGED <<options, term, stdin, read_chars, dsr_sent, curses, stdscr,
                   ca_mode, ops, themeVars, marginVars, colorVars>>

\* Curses::new, lines 222-247: reserve_lines, the start row, the struct and
\* the first resize
NewFinish ==
    /\ geom_pc = "finish"
    /\ stdscr' = reserve_lines(stdscr, term.max_y, curses.height, term)
    /\ curses' = resize([curses EXCEPT !.start_y =
                            start_y_of(curses.height, yx[1], term.max_y)],
                        term)
    /\ geom_pc' = "ready"
    /\ UNCHANGED <<options, term, stdin, read_chars, dsr_sent, yx, ca_mode, ops,
                   themeVars, marginVars, colorVars>>

\* the terminal changes its size to tm and Curses::resize is called
Resize ==
    /\ geom_pc = "ready" /\ ops < MaxOps
    /\ \E tm \in TermSizes :
          /\ term' = tm
          /\ stdscr' = nc_resize(stdscr, tm)
          /\ curses' = resize(curses, tm)
    /\ ops' = ops + 1
    /\ UNCHANGED <<geom_pc, options, stdin, read_chars, dsr_sent, yx,
                   ca_mode, themeVars, marginVars, colorVars>>

Mv ==
    /\ geom_pc = "ready" /\ ops < MaxOps
    /\ \E a \in MvArgs : stdscr' = curses_mv(curses, stdscr, a[1], a[2], term)
    /\ ops' = ops + 1
    /\ UNCHANGED <<geom_pc, options, term, stdin, read_chars, dsr_sent, yx,
                   curses, ca_mode, themeVars, marginVars, colorVars>>

Erase ==
    /\ geom_pc = "ready" /\ ops < MaxOps
    /\ LET r == erase(curses, stdscr, term)
       IN  /\ stdscr' = r.scr
           /\ geom_pc' = IF r.panic THEN "panicked" ELSE "ready"
    /\ ops' = ops + 1
    /\ UNCHANGED <<options, term, stdin, read_chars, dsr_sent, yx, curses,
                   ca_mode, themeVars, marginVars, colorVars>>

Clrtoeol ==
    /\ geom_pc = "ready" /\ ops < MaxOps
    /\ LET r == clrtoeol(curses, stdscr, term)
       IN  /\ stdscr' = r.scr
           /\ geom_pc' = IF r.panic THEN "panicked" ELSE "ready"
    /\ ops' = ops + 1
    /\ UNCHANGED <<options, term, stdin, read_chars, dsr_sent, yx, curses,
                   ca_mode, themeVars, marginVars, colorVars>>

\* Curses::close: erase, mv(0, 0), smcup unless the height is Percent(100),
\* endwin
Close ==
    /\ geom_pc = "ready" /\ ops < MaxOps
    /\ LET r == erase(curses, stdscr, term)
       IN  IF r.panic
           THEN /\ geom_pc' = "panicked"
                /\ UNCHANGED <<stdscr, ca_mode>>
           ELSE /\ geom_pc' = "closed"
                /\ stdscr' = curses_mv(curses, r.scr, 0, 0, term)
                /\ ca_mode' = FALSE
    /\ ops' = ops + 1
    /\ UNCHANGED <<options, term, stdin, read_chars, dsr_sent, yx, curses,
                   themeVars, marginVars, colorVars>>

NextGeom ==
    \/ NewStart \/ GetCursorPosQuery \/ GetCursorPosRead \/ GetCursorPosReturn
    \/ NewFinish \/ Resize \/ Mv \/ Erase \/ Clrtoeol \/ Close

SpecGeom == InitGeom /\ [][NextGeom]_vars


-----------------------------------------------------------------------------
(* Properties of the colour-pair cache (SpecColor). *)

CallPair(i) == <<calls[i][1], calls[i][2]>>
CallHandle(i) == calls[i][3]

\* the resolved pairs requested by calls 1..i
PairsUpTo(i) == { CallPair(j) : j \in 1..i }

\* C1: two get_color_pair calls whose resolved (fg, bg) pairs differ return
\* two distinct handles: the lookup key never collides for distinct pairs.
C1_DistinctPairsDistinctHandles ==
    \A i, j \in 1..Len(calls) :
        CallPair(i) # CallPair(j) => CallHandle(i) # CallHandle(j)

\* C2: after every step, all calls so far with the same resolved (fg, bg)
\* have returned the same handle, whatever calls happened in between, and
\* the step has removed or changed no entry of the cache.
C2_StableHandles ==
    [][ /\ \A i, j \in 1..Len(calls') :
              (calls'[i][1] = calls'[j][1] /\ calls'[i][2] = calls'[j][2])
                  => calls'[i][3] = calls'[j][3]
        /\ \A k \in DOMAIN COLOR_MAP :
              k \in DOMAIN COLOR_MAP' /\ COLOR_MAP'[k] = COLOR_MAP[k]
      ]_vars

\* a pair is requested, another pair is allocated, the first is requested again
C2_Witness ==
    /\ Len(calls) = 3
    /\ CallPair(1) = CallPair(3)
    /\ CallPair(2) # CallPair(1)
    /\ CallHandle(2) # CallHandle(1)
    /\ Cardinality(DOMAIN COLOR_MAP) = 2

\* C3: the k-th distinct resolved pair requested, in first-seen order, is
\* registered at hardware pair index 10 + (k - 1) and every call for it
\* returns that pair's handle; no dynamic pair uses an index below 10.
C3_KthPairAtIndex ==
    \A i \in 1..Len(calls) :
        LET first == CHOOSE j \in 1..i :
                         /\ CallPair(j) = CallPair(i)
                         /\ \A l \in 1..(j - 1) : CallPair(l) # CallPair(i)
            k     == Cardinality(PairsUpTo(first))
            index == COLOR_USER + (k - 1)
        IN  /\ index \in DOMAIN pairs
            /\ pairs[index] = CallPair(i)
            /\ CallHandle(i) = COLOR_PAIR(index)
            /\ index >= COLOR_USER

-----------------------------------------------------------------------------
(* Properties of parse_margin (SpecMargin). *)

CommaPositions(s) == { i \in 1..Len(s) : s[i] = "," }
NumComponents(s) == Cardinality(CommaPositions(s)) + 1

\* the k-th comma-separated component of s, found from the comma positions
Component(s, k) ==
    LET nth(j) == IF j = 0 THEN 0
                  ELSE IF j > Cardinality(CommaPositions(s)) THEN Len(s) + 1
                  ELSE CHOOSE q \in CommaPositions(s) :
                           Cardinality({r \in CommaPositions(s) : r < q}) = j - 1
    IN  SubSeq(s, nth(k - 1) + 1, nth(k) - 1)

MarginValue(s, k) == parse_margin_string(Component(s, k))

\* C7: parse_margin on n components v1..vn returns (top, right, bottom,
\* left) = (v1,v1,v1,v1) for n = 1, (v1,v2,v1,v2) for n = 2, (v1,v2,v3,v2)
\* for n = 3, (v1,v2,v3,v4) for n = 4 and four Fixed(0) for every other n.
C7_ParseMarginAssignment ==
    margin_pc = "returned" =>
        LET n  == NumComponents(margin)
            v1 == MarginValue(margin, 1)
            v2 == MarginValue(margin, 2)
            v3 == MarginValue(margin, 3)
            v4 == MarginValue(margin, 4)
        IN  margins =
              CASE n = 1 -> <<v1, v1, v1, v1>>
                [] n = 2 -> <<v1, v2, v1, v2>>
                [] n = 3 -> <<v1, v2, v3, v2>>
                [] n = 4 -> <<v1, v2, v3, v4>>
                [] OTHER -> <<Fixed(0), Fixed(0), Fixed(0), Fixed(0)>>

\* three components parsed into three different values
C7_Witness ==
    /\ margin_pc = "returned"
    /\ NumComponents(margin) = 3
    /\ Cardinality({margins[1], margins[2], margins[3]}) = 3
    /\ margins[4] = margins[2]

-----------------------------------------------------------------------------
(* Properties of ColorTheme::from_options (SpecTheme). *)

\* the theme the parsing contract gives after one token: without ':' the
\* token selects a preset; `key:value` sets a recognised role to the parsed
\* value or to Undefined; an unrecognised key changes nothing
ContractToken(t, tok) ==
    LET parts == Split(tok, ":")
    IN  IF Len(parts) < 2 THEN PresetOf(parts[1])
        ELSE IF RoleOf(parts[1]) = "" THEN t
        ELSE [t EXCEPT ![RoleOf(parts[1])] = ParseColor(parts[2])]

RECURSIVE ContractFold(_, _)
ContractFold(t, toks) ==
    IF Len(toks) = 0 THEN t
    ELSE ContractFold(ContractToken(t, Head(toks)), Tail(toks))

\* C8: from_options never fails: on every comma-separated sequence of tokens
\* parsing completes and returns the theme the parsing contract describes.
C8_FromOptionsNeverFails ==
    theme_pc # "call" =>
        /\ theme_pc = "returned"
        /\ theme = ContractFold(ColorThemeNew, Split(color, ","))


-----------------------------------------------------------------------------
(* Properties of the viewport geometry (SpecGeom). *)

\* a margin value resolved against a dimension
Resolve(m, dim) ==
    IF m.kind = "Fixed" THEN m.n ELSE TruncDiv(m.n * dim, 100)

HeightRows == Min(term.max_y, Resolve(curses.height, term.max_y))

\* C4: after initialization and after any sequence of resize calls the
\* viewport satisfies top <= bottom, left <= right, 0 <= top,
\* bottom <= terminal rows, 0 <= left and right <= terminal columns.
C4_ViewportInsideTerminal ==
    geom_pc = "ready" =>
        /\ curses.top <= curses.bottom
        /\ curses.left <= curses.right
        /\ 0 <= curses.top
        /\ curses.bottom <= term.max_y
        /\ 0 <= curses.left
        /\ curses.right <= term.max_x

\* C5: resize sets height_rows = min(max_rows, height resolved against
\* max_rows), top = start_row + margin_top resolved against height_rows,
\* bottom = start_row + height_rows - margin_bottom resolved against
\* height_rows, left = margin_left resolved against max_cols and
\* right = max_cols - margin_right resolved against max_cols.
C5_ResizeFormulas ==
    geom_pc = "ready" =>
        /\ curses.top = curses.start_y + Resolve(curses.margin_top, HeightRows)
        /\ curses.bottom = curses.start_y + HeightRows
                             - Resolve(curses.margin_bottom, HeightRows)
        /\ curses.left = Resolve(curses.margin_left, term.max_x)
        /\ curses.right = term.max_x - Resolve(curses.margin_right, term.max_x)

\* the example of the claim, after a resize: 50x100, height Percent(40),
\* margins 2,4
C5_Witness ==
    /\ geom_pc = "ready" /\ ops > 0
    /\ term = [max_y |-> 50, max_x |-> 100]
    /\ curses.height = Percent(40)
    /\ options[1] = <<"2", ",", "4">>
    /\ HeightRows = 20
    /\ curses.top = curses.start_y + 2
    /\ curses.bottom = curses.start_y + 18
    /\ curses.left = 4
    /\ curses.right = 96

InViewport(r, c) ==
    /\ r >= curses.top /\ r < curses.bottom
    /\ c >= curses.left /\ c < curses.right

\* C6: erase writes spaces exactly to the cells with row in [top, bottom)
\* and column in [left, right); clrtoeol writes spaces only to cells of the
\* cursor's row with column in [left, right); every other cell of the
\* terminal is left as it was.
C6_EraseOnlyViewport ==
    [][ /\ Erase =>
            \A r \in 0..(term.max_y - 1), c \in 0..(term.max_x - 1) :
                CharAt(stdscr'.log, r, c) =
                    IF InViewport(r, c) THEN " " ELSE CharAt(stdscr.log, r, c)
        /\ Clrtoeol =>
            \A r \in 0..(term.max_y - 1), c \in 0..(term.max_x - 1) :
                (r = stdscr.y /\ c >= curses.left /\ c < curses.right)
                \/ CharAt(stdscr'.log, r, c) = CharAt(stdscr.log, r, c)
      ]_vars

\* C9: initialization sets start_row = 0 when the height is Percent(100) and
\* otherwise min(queried cursor row, max_rows - height resolved against
\* max_rows); right after it start_row + height_rows <= max_rows.
C9_StartRow ==
    (geom_pc = "ready" /\ ops = 0) =>
        /\ curses.start_y =
              IF curses.height = Percent(100) THEN 0
              ELSE Min(yx[1], term.max_y - Resolve(curses.height, term.max_y))
        /\ curses.start_y + HeightRows <= term.max_y

\* a partial-height panel whose cursor row was too low and got clamped
C9_Witness ==
    /\ geom_pc = "ready" /\ ops = 0
    /\ curses.height # Percent(100)
    /\ yx[1] > term.max_y - Resolve(curses.height, term.max_y)
    /\ curses.start_y < yx[1]

\* C10: when the height is Percent(100), initialization writes no
\* cursor-position query and performs no blocking read.
C10_NoQueryWhenFullScreen ==
    (geom_pc # "new" /\ curses.height = Percent(100)) =>
        /\ dsr_sent = 0
        /\ geom_pc # "read"
        /\ read_chars = <<>>

-----------------------------------------------------------------------------
(* Properties of the colour-pair cache under threads (SpecThreads). *)

\* the threads inside the lookup-or-allocate step: past COLOR_MAP.write(),
\* not yet returned
InsideCacheStep == { t \in Threads : th_pc[t] \in {"len", "entry", "return"} }

\* C11: under every interleaving of concurrent get_color_pair calls, at most
\* one thread is inside the lookup-or-allocate step and it holds the cache's
\* lock for writing; each key is registered with the hardware at most once;
\* no two distinct keys are assigned the same pair index; and all callers of
\* the same key obtain the same handle, the one the cache holds for the key.
C11_ExclusiveAtomicAllocation ==
    /\ Cardinality(InsideCacheStep) <= 1
    /\ \A t \in InsideCacheStep :
           locks["COLOR_MAP"] = [writer |-> t, readers |-> {}]
    /\ \A i, j \in 1..Len(registered) :
           i # j => /\ registered[i].key # registered[j].key
                    /\ registered[i].index # registered[j].index
    /\ \A k1, k2 \in DOMAIN COLOR_MAP :
           k1 # k2 => COLOR_MAP[k1] # COLOR_MAP[k2]
    /\ \A i \in 1..Len(calls) :
           LET key == color_key(calls[i][1], calls[i][2])
           IN  /\ key \in DOMAIN COLOR_MAP
               /\ CallHandle(i) = COLOR_MAP[key]
               /\ \A j \in 1..Len(calls) :
                      color_key(calls[j][1], calls[j][2]) = key
                          => CallHandle(j) = CallHandle(i)

\* two threads ask for the same unregistered key at once: one has registered
\* it and is about to return, the other waits for the lock
C11_Witness ==
    \E t1, t2 \in Threads :
        /\ t1 # t2
        /\ th_pc[t1] = "return"
        /\ th_pc[t2] = "write"
        /\ th_local[t1].key = th_local[t2].key
        /\ Len(registered) >= 1
        /\ registered[Len(registered)].key = th_local[t1].key
        /\ ~can_write(locks["COLOR_MAP"])

====
